---- MODULE Spec2Model ----
(***************************************************************************)
(* Model of genrev (src/agent_system.py, src/app.py): a Generator agent    *)
(* and a Reviewer agent, each a prompt | llm | JsonOutputParser chain, and *)
(* the AgentPipeline that sequences generate -> review -> (on "fail")      *)
(* generate-with-feedback and assembles the results dict.                  *)
(*                                                                         *)
(* Python values are modelled structurally: a dict is a record whose       *)
(* DOMAIN is the dict's key set, a list is a sequence, None is the record  *)
(* PyNone.  The text-generation service is the environment: every chain    *)
(* invocation draws its response from GeneratorResponses or                 *)
(* ReviewerResponses.                                                      *)
(***************************************************************************)
EXTENDS Integers, Sequences, FiniteSets, TLC

(* ------------------------------ bounds --------------------------------- *)

\* grades offered to run: 1..MaxGrade
MaxGrade == 2

\* longest feedback list a review response carries
MaxFeedback == 2

(* ------------------------- program constants --------------------------- *)

\* "Create exactly 4 multiple choice questions" (generator prompt)
NumQuestions == 4

\* "Each MCQ must have 4 options" (generator prompt)
NumOptions == 4

(* ------------------------------ values --------------------------------- *)

RunIds == {"r1", "r2"}

Grades == 1..MaxGrade

Topics == {"Types of angles", "The water cycle"}

\* Python's None
PyNone == [py |-> "None"]

\* values of os.environ['GROQ_API_KEY']: unset (os.getenv gives None), the
\* empty string, or a key
EnvUnset == "<unset>"

ApiKeys == {"gsk_A", "gsk_B"}

EnvValues == {EnvUnset, ""} \cup ApiKeys

\* feedback items are free text from the service; the last one has a
\* newline in it
FeedbackItems == {"too advanced", "q2 untaught", "vague wording\nsee q2"}

\* text.split(chr(10)) over the texts above: the lines of a str
TextLines(text) ==
    IF text = "vague wording\nsee q2" THEN <<"vague wording", "see q2">> ELSE <<text>>

RECURSIVE SeqsUpTo(_, _)
SeqsUpTo(S, n) ==
    IF n = 0 THEN {<<>>}
    ELSE LET shorter == SeqsUpTo(S, n - 1)
         IN  shorter \cup {Append(s, x) : s \in {t \in shorter : Len(t) = n - 1}, x \in S}

FeedbackLists == SeqsUpTo(FeedbackItems, MaxFeedback)

Range(s) == {s[i] : i \in DOMAIN s}

(* ---- JSON objects the service can answer the generator prompt with ---- *)

AllOptions == <<"acute", "right", "obtuse", "straight">>

Mcq(q, opts, ans) == [question |-> q, options |-> opts, answer |-> ans]

GoodMcqs == [i \in 1..NumQuestions |-> Mcq(i, SubSeq(AllOptions, 1, NumOptions), AllOptions[1])]

Bundle(e, mcqs) == [explanation |-> e, mcqs |-> mcqs]

\* objects of the GeneratorOutput wire shape that meet the prompt's counts
ShapedBundles == {Bundle(e, GoodMcqs) : e \in {"simple words", "advanced words"}}

\* objects that are valid JSON of the same shape but miss the counts, or
\* whose answer is none of the options
MisshapedBundles ==
    { Bundle("simple words", SubSeq(GoodMcqs, 1, NumQuestions - 1)),
      Bundle("simple words",
             [GoodMcqs EXCEPT ![1] = Mcq(1, SubSeq(AllOptions, 1, NumOptions - 1), AllOptions[1])]),
      Bundle("simple words",
             [GoodMcqs EXCEPT ![1] = Mcq(1, SubSeq(AllOptions, 1, NumOptions), "reflex")]) }

GeneratorJson == ShapedBundles \cup MisshapedBundles

(* ---- JSON objects the service can answer the reviewer prompt with ----- *)

ReviewStatuses == {"pass", "fail", "needs_revision"}

ReviewerJson ==
    {[status |-> s, feedback |-> f] : s \in ReviewStatuses, f \in FeedbackLists}
    \cup {[feedback |-> f] : f \in {<<>>, <<"too advanced">>}}
    \cup {[status |-> s] : s \in {"pass", "fail"}}

(* ---- responses of the text-generation service to one invocation ------- *)
\* kind "unreachable": the call itself raises; kind "text": raw text came
\* back, which is JSON for `value` when json = TRUE and not JSON otherwise.

LLMText(v) == [kind |-> "text", json |-> TRUE, value |-> v]

LLMFailures == {[kind |-> "unreachable"], [kind |-> "text", json |-> FALSE]}

GeneratorResponses == LLMFailures \cup {LLMText(v) : v \in GeneratorJson}

ReviewerResponses == LLMFailures \cup {LLMText(v) : v \in ReviewerJson}

(* ------------------------------ results -------------------------------- *)

Returned(v) == [ok |-> TRUE, value |-> v]

Raised(type, by) == [ok |-> FALSE, error |-> [type |-> type, raisedBy |-> by]]

(* ------------------------------- state --------------------------------- *)

VARIABLES
    envKey,     \* os.environ['GROQ_API_KEY'], shared by every session
    pc,         \* pc[r]: where session r is
    pipeline,   \* pipeline[r]: the AgentPipeline object of r, or PyNone
    results,    \* results[r]: the results dict local to r's run call
    locals,     \* locals[r]: run's locals initial_content and review
    returned,   \* returned[r]: what r's run call returned to its caller
    raised,     \* raised[r]: the exception that reached r's caller
    genCalls,   \* genCalls[r]: the generate calls so far (kwargs, request)
    genReturns, \* genReturns[r]: the outcomes of those calls, in order
    revCalls,   \* revCalls[r]: the review calls so far
    revReturns, \* revReturns[r]: their outcomes
    llmCalls    \* llmCalls[r]: chain.invoke calls made on behalf of r

vars == <<envKey, pc, pipeline, results, locals, returned, raised,
          genCalls, genReturns, revCalls, revReturns, llmCalls>>

(* ------------------------------ agents --------------------------------- *)

\* variant: `if api_key is None`
ApiKeyMissingNoneOnly(env) == env = EnvUnset

\* `if not api_key` is taken for None (variable unset) and for ""
ApiKeyMissing(env) == env = EnvUnset \/ env = ""

GeneratorAgentInit(env) ==
    IF ApiKeyMissing(env)
    THEN Raised("ValueError", "GeneratorAgent.__init__")
    ELSE Returned([model |-> "llama-3.3-70b-versatile", temperature |-> "0.7",
                   api_key |-> env])

ReviewerAgentInit(env) ==
    IF ApiKeyMissing(env)
    THEN Raised("ValueError", "ReviewerAgent.__init__")
    ELSE Returned([model |-> "llama-3.3-70b-versatile", temperature |-> "0.3",
                   api_key |-> env])

\* AgentPipeline.__init__: the generator first, then the reviewer; the first
\* exception ends the construction
AgentPipelineInit(env) ==
    LET g == GeneratorAgentInit(env)
        v == ReviewerAgentInit(env)
    IN  IF ~g.ok THEN g
        ELSE IF ~v.ok THEN v
        ELSE Returned([generator |-> g.value, reviewer |-> v.value])

\* prompt | llm | JsonOutputParser: the llm call raises when the service is
\* unreachable; the parser raises on text that is not JSON and otherwise
\* returns the parsed object as it is.  The pydantic_object given to
\* JsonOutputParser only shapes the format instructions.
ChainInvoke(resp, by) ==
    IF resp.kind = "unreachable" THEN Raised("APIConnectionError", by)
    ELSE IF ~resp.json THEN Raised("OutputParserException", by)
    ELSE Returned(resp.value)

\* one line of prompt text: a literal prefix and the interpolated text
Line(prefix, text) == <<prefix, text>>

\* the lines that f"- {item}" takes in the joined text: the item's first
\* line after "- ", then the item's further lines as they are
ItemLines(item) ==
    LET ls == TextLines(item)
    IN  <<Line("- ", ls[1])>> \o [i \in 1..(Len(ls) - 1) |-> Line("", ls[i + 1])]

\* chr(10).join(f"- {item}" for item in feedback), as lines
RECURSIVE JoinedItems(_)
JoinedItems(feedback) ==
    IF feedback = <<>> THEN <<>>
    ELSE ItemLines(Head(feedback)) \o JoinedItems(Tail(feedback))

\* variant: the items are joined last to first
RECURSIVE JoinedItemsReversed(_)
JoinedItemsReversed(feedback) ==
    IF feedback = <<>> THEN <<>>
    ELSE JoinedItemsReversed(Tail(feedback)) \o ItemLines(Head(feedback))

FeedbackDirectiveReversed(feedback) ==
    <<Line("", ""), Line("FEEDBACK FROM REVIEWER (Address these issues):", "")>>
    \o JoinedItemsReversed(feedback)
    \o <<Line("", "")>>

\* the f-string of generate: a blank line, the directive, chr(10).join of
\* "- {item}" over the feedback, a closing newline
FeedbackDirective(feedback) ==
    <<Line("", ""), Line("FEEDBACK FROM REVIEWER (Address these issues):", "")>>
    \o JoinedItems(feedback)
    \o <<Line("", "")>>

\* variant: `if feedback is not None`
FeedbackSectionNotNone(kwargs) ==
    IF "feedback" \in DOMAIN kwargs
    THEN FeedbackDirective(kwargs.feedback)
    ELSE <<>>

\* feedback defaults to None; `if feedback` is false for None and for []
FeedbackSection(kwargs) ==
    IF "feedback" \in DOMAIN kwargs /\ kwargs.feedback # <<>>
    THEN FeedbackDirective(kwargs.feedback)
    ELSE <<>>

\* the dict GeneratorAgent.generate hands to chain.invoke
GeneratorRequest(kwargs) ==
    [grade |-> kwargs.grade, topic |-> kwargs.topic,
     feedback_section |-> FeedbackSection(kwargs),
     format_instructions |-> "GeneratorOutput"]

\* the dict ReviewerAgent.review hands to chain.invoke; json.dumps of the
\* content is kept as the content itself, tagged as serialized
ReviewerRequest(kwargs) ==
    [grade |-> kwargs.grade, topic |-> kwargs.topic,
     content |-> [json_dumps |-> kwargs.content],
     format_instructions |-> "ReviewerOutput"]

Generate(kwargs, resp) == ChainInvoke(resp, "GeneratorAgent.generate")

Review(kwargs, resp) == ChainInvoke(resp, "ReviewerAgent.review")

(* ------------------------- one session's state ------------------------- *)
\* The handlers below are functions from a session's state to its next
\* state; View reads that state out of the variables, Assign writes it back.

View(r) ==
    [pc |-> pc[r], pipeline |-> pipeline[r], results |-> results[r],
     locals |-> locals[r], returned |-> returned[r], raised |-> raised[r],
     genCalls |-> genCalls[r], genReturns |-> genReturns[r],
     revCalls |-> revCalls[r], revReturns |-> revReturns[r],
     llmCalls |-> llmCalls[r]]

Assign(r, s) ==
    /\ pc' = [pc EXCEPT ![r] = s.pc]
    /\ pipeline' = [pipeline EXCEPT ![r] = s.pipeline]
    /\ results' = [results EXCEPT ![r] = s.results]
    /\ locals' = [locals EXCEPT ![r] = s.locals]
    /\ returned' = [returned EXCEPT ![r] = s.returned]
    /\ raised' = [raised EXCEPT ![r] = s.raised]
    /\ genCalls' = [genCalls EXCEPT ![r] = s.genCalls]
    /\ genReturns' = [genReturns EXCEPT ![r] = s.genReturns]
    /\ revCalls' = [revCalls EXCEPT ![r] = s.revCalls]
    /\ revReturns' = [revReturns EXCEPT ![r] = s.revReturns]
    /\ llmCalls' = [llmCalls EXCEPT ![r] = s.llmCalls]

Fresh ==
    [pc |-> "Idle", pipeline |-> PyNone, results |-> PyNone, locals |-> PyNone,
     returned |-> PyNone, raised |-> PyNone, genCalls |-> <<>>,
     genReturns |-> <<>>, revCalls |-> <<>>, revReturns |-> <<>>, llmCalls |-> 0]

Last(q) == q[Len(q)]

(* ----------------------------- AgentPipeline --------------------------- *)

\* pipeline = AgentPipeline(): the object, or the constructor's exception
Construct(s, env) ==
    LET out == AgentPipelineInit(env)
    IN  IF out.ok
        THEN [s EXCEPT !.pc = "Ready", !.pipeline = out.value]
        ELSE [s EXCEPT !.pc = "ConfigFailed", !.raised = out.error]

\* generator.generate(**kwargs) up to and including chain.invoke: the request
\* is built and sent, the caller blocks
CallGenerate(s, kwargs) ==
    [s EXCEPT !.genCalls = Append(@, [kwargs |-> kwargs, request |-> GeneratorRequest(kwargs)]),
              !.llmCalls = @ + 1]

\* reviewer.review(**kwargs) up to and including chain.invoke
CallReview(s, kwargs) ==
    [s EXCEPT !.revCalls = Append(@, [kwargs |-> kwargs, request |-> ReviewerRequest(kwargs)]),
              !.llmCalls = @ + 1]

\* variant: run catches the exception and returns what it has so far
RunRaisesReturnsPartial(s, error) ==
    [s EXCEPT !.pc = "Done", !.returned = s.results]

\* variant: run wraps the exception before it leaves
RunRaisesWrapped(s, error) ==
    [s EXCEPT !.pc = "Failed",
              !.raised = [type |-> "PipelineError", raisedBy |-> "AgentPipeline.run",
                          cause |-> error]]

\* variant: run answers a failed first generation or review by generating again
RunRaisesRetries(s, error) ==
    IF Len(s.genCalls) = 1 /\ error.type # "KeyError"
    THEN CallGenerate([s EXCEPT !.pc = "Refining", !.locals.review = [feedback |-> <<>>]],
                      [grade |-> s.locals.grade, topic |-> s.locals.topic])
    ELSE [s EXCEPT !.pc = "Failed", !.raised = error]

\* run has no try/except: an exception raised inside it leaves run as it is,
\* and run's frame (results included) is gone
RunRaises(s, error) == [s EXCEPT !.pc = "Failed", !.raised = error]

\* return results
RunReturns(s) == [s EXCEPT !.pc = "Done", !.returned = s.results]

\* run(grade, topic): the results dict, then the first generate call
RunEntry(s, grade, topic) ==
    CallGenerate(
        [s EXCEPT !.pc = "Generating1",
                  !.results = [input |-> [grade |-> grade, topic |-> topic],
                               initial_generation |-> PyNone,
                               initial_review |-> PyNone,
                               refinement |-> PyNone,
                               final_output |-> PyNone],
                  !.locals = [grade |-> grade, topic |-> topic,
                              initial_content |-> PyNone, review |-> PyNone,
                              refined_content |-> PyNone]],
        [grade |-> grade, topic |-> topic])

\* variant: `review["status"] != "pass"`
NeedsRefinementNotPass(review) == review.status # "pass"

\* variant: the branch condition inverted
NeedsRefinementInverted(review) == review.status = "pass"

\* review["status"] == "fail"
NeedsRefinement(review) == review.status = "fail"

\* variant: the second call is made without the feedback
RefineKwargsNoFeedback(s, review) ==
    [grade |-> s.locals.grade, topic |-> s.locals.topic]

\* the arguments of the second generate call
RefineKwargs(s, review) ==
    [grade |-> s.locals.grade, topic |-> s.locals.topic, feedback |-> review["feedback"]]

\* variant: the reviewer is handed results["final_output"], still unset
OnGenerate1ReviewsFinalOutput(s, resp) ==
    LET out == Generate(Last(s.genCalls).kwargs, resp)
        s1  == [s EXCEPT !.genReturns = Append(@, out)]
    IN  IF ~out.ok THEN RunRaises(s1, out.error)
        ELSE CallReview(
                 [s1 EXCEPT !.pc = "Reviewing",
                            !.locals.initial_content = out.value,
                            !.results.initial_generation = out.value],
                 [grade |-> s.locals.grade, topic |-> s.locals.topic,
                  content |-> s.results.final_output])

\* the first generate call is back: record it, call the reviewer
OnGenerate1(s, resp) ==
    LET out == Generate(Last(s.genCalls).kwargs, resp)
        s1  == [s EXCEPT !.genReturns = Append(@, out)]
    IN  IF ~out.ok THEN RunRaises(s1, out.error)
        ELSE CallReview(
                 [s1 EXCEPT !.pc = "Reviewing",
                            !.locals.initial_content = out.value,
                            !.results.initial_generation = out.value],
                 [grade |-> s.locals.grade, topic |-> s.locals.topic, content |-> out.value])

\* the review call is back: record it, then refine on "fail" and accept
\* otherwise; a review dict without the key read raises KeyError
OnReview(s, resp) ==
    LET out == Review(Last(s.revCalls).kwargs, resp)
        s1  == [s EXCEPT !.revReturns = Append(@, out)]
    IN  IF ~out.ok THEN RunRaises(s1, out.error)
        ELSE LET review == out.value
                 s2 == [s1 EXCEPT !.locals.review = review,
                                  !.results.initial_review = review]
             IN  IF "status" \notin DOMAIN review
                 THEN RunRaises(s2, Raised("KeyError", "AgentPipeline.run").error)
                 ELSE IF NeedsRefinement(review)
                 THEN IF "feedback" \notin DOMAIN review
                      THEN RunRaises(s2, Raised("KeyError", "AgentPipeline.run").error)
                      ELSE CallGenerate([s2 EXCEPT !.pc = "Refining"], RefineKwargs(s2, review))
                 ELSE RunReturns([s2 EXCEPT !.results.final_output = s2.locals.initial_content])

\* variant: the refined content is sent back to the reviewer
RefinedThenReviewed(s, refined_content) ==
    CallReview(
        [s EXCEPT !.pc = "Reviewing",
                  !.locals.initial_content = refined_content,
                  !.results.refinement = [content |-> refined_content,
                                          feedback_addressed |-> s.locals.review["feedback"]],
                  !.results.final_output = refined_content],
        [grade |-> s.locals.grade, topic |-> s.locals.topic, content |-> refined_content])

\* variant: the refined content also replaces the recorded first generation
RefinedOverwritesInitial(s, refined_content) ==
    RunReturns(
        [s EXCEPT !.locals.refined_content = refined_content,
                  !.results.initial_generation = refined_content,
                  !.results.refinement = [content |-> refined_content,
                                          feedback_addressed |-> s.locals.review["feedback"]],
                  !.results.final_output = refined_content])

\* variant: the refinement is recorded but the first content stays final
RefinedKeepsInitial(s, refined_content) ==
    RunReturns(
        [s EXCEPT !.locals.refined_content = refined_content,
                  !.results.refinement = [content |-> refined_content,
                                          feedback_addressed |-> s.locals.review["feedback"]],
                  !.results.final_output = s.locals.initial_content])

\* the refined content is recorded as refinement and as final output, and
\* run returns
Refined(s, refined_content) ==
    RunReturns(
        [s EXCEPT !.locals.refined_content = refined_content,
                  !.results.refinement = [content |-> refined_content,
                                          feedback_addressed |-> s.locals.review["feedback"]],
                  !.results.final_output = refined_content])

\* variant: generate invokes the chain once more when the invocation fails
OnRefineRetriesInvoke(s, resp) ==
    LET out == Generate(Last(s.genCalls).kwargs, resp)
        s1  == [s EXCEPT !.genReturns = Append(@, out)]
    IN  IF ~out.ok
        THEN IF s.llmCalls = Len(s.genCalls) + Len(s.revCalls)
             THEN [s EXCEPT !.llmCalls = @ + 1]
             ELSE RunRaises(s1, out.error)
        ELSE Refined(s1, out.value)

\* the second generate call is back
OnRefine(s, resp) ==
    LET out == Generate(Last(s.genCalls).kwargs, resp)
        s1  == [s EXCEPT !.genReturns = Append(@, out)]
    IN  IF ~out.ok THEN RunRaises(s1, out.error) ELSE Refined(s1, out.value)

(* ------------------------------ actions -------------------------------- *)

\* app.py: `if api_key: os.environ['GROQ_API_KEY'] = api_key`
SetApiKey(k) ==
    /\ envKey' = k
    /\ UNCHANGED <<pc, pipeline, results, locals, returned, raised,
                   genCalls, genReturns, revCalls, revReturns, llmCalls>>

PipelineCreate(r) ==
    /\ pc[r] = "Idle"
    /\ Assign(r, Construct(View(r), envKey))
    /\ UNCHANGED envKey

RunStart(r, grade, topic) ==
    /\ pc[r] = "Ready"
    /\ Assign(r, RunEntry(View(r), grade, topic))
    /\ UNCHANGED envKey

Generate1Returns(r, resp) ==
    /\ pc[r] = "Generating1"
    /\ Assign(r, OnGenerate1(View(r), resp))
    /\ UNCHANGED envKey

ReviewReturns(r, resp) ==
    /\ pc[r] = "Reviewing"
    /\ Assign(r, OnReview(View(r), resp))
    /\ UNCHANGED envKey

RefineReturns(r, resp) ==
    /\ pc[r] = "Refining"
    /\ Assign(r, OnRefine(View(r), resp))
    /\ UNCHANGED envKey

InitOver(R) ==
    /\ envKey \in {EnvUnset, "", "gsk_A"}
    /\ pc = [r \in R |-> Fresh.pc]
    /\ pipeline = [r \in R |-> Fresh.pipeline]
    /\ results = [r \in R |-> Fresh.results]
    /\ locals = [r \in R |-> Fresh.locals]
    /\ returned = [r \in R |-> Fresh.returned]
    /\ raised = [r \in R |-> Fresh.raised]
    /\ genCalls = [r \in R |-> Fresh.genCalls]
    /\ genReturns = [r \in R |-> Fresh.genReturns]
    /\ revCalls = [r \in R |-> Fresh.revCalls]
    /\ revReturns = [r \in R |-> Fresh.revReturns]
    /\ llmCalls = [r \in R |-> Fresh.llmCalls]

\* one session
Init == InitOver({"r1"})

Sessions == DOMAIN pc

Next ==
    \/ \E k \in ApiKeys : SetApiKey(k)
    \/ \E r \in Sessions : PipelineCreate(r)
    \/ \E r \in Sessions, grade \in Grades, topic \in Topics : RunStart(r, grade, topic)
    \/ \E r \in Sessions, resp \in GeneratorResponses : Generate1Returns(r, resp)
    \/ \E r \in Sessions, resp \in ReviewerResponses : ReviewReturns(r, resp)
    \/ \E r \in Sessions, resp \in GeneratorResponses : RefineReturns(r, resp)

Spec == Init /\ [][Next]_vars

(* ---- one session, every call to the service answered in the end ------- *)
\* chain.invoke blocks until the service answers or the call raises; under
\* the premise that each call does one or the other in the end, the return
\* step of a call in progress is taken.

CallReturns(r) ==
    \/ \E resp \in GeneratorResponses : Generate1Returns(r, resp)
    \/ \E resp \in ReviewerResponses : ReviewReturns(r, resp)
    \/ \E resp \in GeneratorResponses : RefineReturns(r, resp)

SpecLive == Init /\ [][Next]_vars /\ WF_vars(CallReturns("r1"))

(* ---- two sessions of the app in one process, steps interleaved -------- *)
\* Streamlit runs every session's script in a thread of the same process, so
\* os.environ is common to the sessions and each script run with a key typed
\* in writes it.  The responses are a part of the full sets, enough to tell
\* the sessions' bundles and reviews apart, to keep the product finite and
\* small.

InitConc == InitOver(RunIds)

ConcGeneratorResponses ==
    {[kind |-> "unreachable"]} \cup {LLMText(v) : v \in ShapedBundles}

ConcReviewerResponses ==
    {[kind |-> "unreachable"],
     LLMText([status |-> "pass", feedback |-> <<>>]),
     LLMText([status |-> "fail", feedback |-> <<"too advanced">>])}

NextConc ==
    \/ \E k \in ApiKeys : SetApiKey(k)
    \/ \E r \in Sessions : PipelineCreate(r)
    \/ \E r \in Sessions, grade \in Grades : RunStart(r, grade, "Types of angles")
    \/ \E r \in Sessions, resp \in ConcGeneratorResponses : Generate1Returns(r, resp)
    \/ \E r \in Sessions, resp \in ConcReviewerResponses : ReviewReturns(r, resp)
    \/ \E r \in Sessions, resp \in ConcGeneratorResponses : RefineReturns(r, resp)

SpecConc == InitConc /\ [][NextConc]_vars

(* ============================= properties ============================== *)

\* the outcomes of r's role calls in the order run makes them: generate,
\* review, generate
RoleReturns(r) ==
    IF genReturns[r] = <<>> THEN <<>>
    ELSE <<genReturns[r][1]>> \o revReturns[r] \o Tail(genReturns[r])

\* some role call of r ended in an exception
RoleFailed(r) == \E i \in DOMAIN RoleReturns(r) : ~RoleReturns(r)[i].ok

\* r's run call returned a results dict
HasRecord(r) == returned[r] # PyNone

StatusOf(review) == IF "status" \in DOMAIN review THEN review.status ELSE "<no status>"

C2_FailBranch ==
    \A r \in Sessions :
        (HasRecord(r) /\ StatusOf(returned[r].initial_review) = "fail") =>
            /\ returned[r].refinement # PyNone
            /\ returned[r].refinement.feedback_addressed = returned[r].initial_review.feedback
            /\ returned[r].final_output = returned[r].refinement.content
            /\ Len(genReturns[r]) = 2
            /\ genReturns[r][2] = Returned(returned[r].final_output)

\* the refined bundle differs from the first and misses the counts
C2_Witness ==
    \E r \in Sessions :
        /\ HasRecord(r)
        /\ StatusOf(returned[r].initial_review) = "fail"
        /\ returned[r].final_output \in MisshapedBundles
        /\ returned[r].final_output # returned[r].initial_generation

(* C3: a returned record whose initial_review.status is "pass" has no     *)
(* refinement, its final_output is initial_generation, the value the      *)
(* first generate call returned, and the generator was called once.       *)
C3_PassBranch ==
    \A r \in Sessions :
        (HasRecord(r) /\ StatusOf(returned[r].initial_review) = "pass") =>
            /\ returned[r].refinement = PyNone
            /\ returned[r].final_output = returned[r].initial_generation
            /\ genReturns[r] = <<Returned(returned[r].final_output)>>
            /\ Len(genCalls[r]) = 1

C3_Witness ==
    \E r \in Sessions :
        /\ HasRecord(r)
        /\ StatusOf(returned[r].initial_review) = "pass"
        /\ "feedback" \in DOMAIN returned[r].initial_review
        /\ returned[r].initial_review.feedback # <<>>

(* C4: the second generate call gets the grade and topic run was called   *)
(* with and, as feedback, the feedback list of the review that was        *)
(* returned with status "fail": same items, same order.                    *)
C4_RefineArguments ==
    \A r \in Sessions :
        Len(genCalls[r]) >= 2 =>
            /\ Len(revReturns[r]) = 1
            /\ revReturns[r][1].ok
            /\ StatusOf(revReturns[r][1].value) = "fail"
            /\ genCalls[r][2].kwargs =
                   [grade |-> results[r].input.grade,
                    topic |-> results[r].input.topic,
                    feedback |-> revReturns[r][1].value.feedback]
            /\ genCalls[r][1].kwargs =
                   [grade |-> results[r].input.grade, topic |-> results[r].input.topic]

\* two distinct items, so that the order shows
C4_Witness ==
    \E r \in Sessions :
        /\ Len(genCalls[r]) = 2
        /\ Len(genCalls[r][2].kwargs.feedback) = 2
        /\ genCalls[r][2].kwargs.feedback[1] # genCalls[r][2].kwargs.feedback[2]

RoleErrors(r) == {RoleReturns(r)[i].error : i \in {j \in DOMAIN RoleReturns(r) : ~RoleReturns(r)[j].ok}}

WellFormedBundle(b) ==
    /\ Len(b.mcqs) = NumQuestions
    /\ \A i \in DOMAIN b.mcqs :
        /\ Len(b.mcqs[i].options) = NumOptions
        /\ b.mcqs[i].answer \in Range(b.mcqs[i].options)

(* C7: every bundle a generate call returns, and every final_output run   *)
(* returns, has exactly 4 questions, each with exactly 4 options and an   *)
(* answer that is one of them.                                            *)
C7_BundlesWellFormed ==
    \A r \in Sessions :
        /\ \A i \in DOMAIN genReturns[r] :
            genReturns[r][i].ok => WellFormedBundle(genReturns[r][i].value)
        /\ HasRecord(r) => WellFormedBundle(returned[r].final_output)

MissingCredential == {EnvUnset, ""}

ConstructorError(by) == [type |-> "ValueError", raisedBy |-> by]

C9_RefinementOnlyOnFailVerdict ==
    \A r \in Sessions :
        /\ Len(genCalls[r]) >= 2 =>
            /\ genReturns[r][1].ok
            /\ Len(revReturns[r]) = 1
            /\ revReturns[r][1].ok
            /\ StatusOf(revReturns[r][1].value) = "fail"
        /\ ( \/ (Len(genReturns[r]) >= 1 /\ ~genReturns[r][1].ok)
             \/ (Len(revReturns[r]) >= 1 /\ ~revReturns[r][1].ok) ) =>
            /\ Len(genCalls[r]) = 1
            /\ pc[r] = "Failed"

\* the review call raised after a first generation that succeeded
C9_Witness ==
    \E r \in Sessions :
        /\ Len(revReturns[r]) = 1
        /\ ~revReturns[r][1].ok
        /\ genReturns[r][1].ok
        /\ Len(genCalls[r]) = 1
        /\ pc[r] = "Failed"

(* C10: every review a review call returns, and every initial_review of   *)
(* a returned record, has a status that is "pass" or "fail".              *)
C10_StatusPassOrFail ==
    \A r \in Sessions :
        /\ \A i \in DOMAIN revReturns[r] :
            revReturns[r][i].ok => StatusOf(revReturns[r][i].value) \in {"pass", "fail"}
        /\ HasRecord(r) => StatusOf(returned[r].initial_review) \in {"pass", "fail"}

\* r's returned record holds what r's own role calls returned, and nothing
\* else: the first generate call's value, the review call's value, and as
\* final output (and refinement) the second generate call's value if there
\* was one
RecordIsOwn(r) ==
    HasRecord(r) =>
        /\ returned[r].input = [grade |-> genCalls[r][1].kwargs.grade,
                                topic |-> genCalls[r][1].kwargs.topic]
        /\ genReturns[r][1] = Returned(returned[r].initial_generation)
        /\ revReturns[r] = <<Returned(returned[r].initial_review)>>
        /\ Last(genReturns[r]) = Returned(returned[r].final_output)
        /\ returned[r].refinement # PyNone =>
               /\ Len(genReturns[r]) = 2
               /\ returned[r].refinement.content = genReturns[r][2].value

\* some session has built its agents from the credential in the environment
ConfigInitialized == envKey \in ApiKeys /\ \E r \in Sessions : pipeline[r] # PyNone

(* C11: with two sessions interleaved in any order, each returned record  *)
(* holds only what that session's own role calls returned, and the        *)
(* shared credential is not written once a session has built its agents   *)
(* from it.                                                                *)
C11_NoSharedMutableState ==
    /\ [](\A r \in Sessions : RecordIsOwn(r))
    /\ [][ConfigInitialized => envKey' = envKey]_vars

\* the records of concurrent sessions hold their own values
C11_RecordsAreOwn == \A r \in Sessions : RecordIsOwn(r)

\* a session's agents carry a key that the environment no longer holds
C11_KeyOverwritten ==
    \E r \in Sessions :
        /\ pipeline[r] # PyNone
        /\ pipeline[r].generator.api_key # envKey

\* the positions of a run call, and the order its code passes them in
InRun == {"Generating1", "Reviewing", "Refining"}

Finished == {"Done", "Failed"}

Rank(p) ==
    CASE p = "Idle" -> 0
      [] p \in {"Ready", "ConfigFailed"} -> 1
      [] p = "Generating1" -> 2
      [] p = "Reviewing" -> 3
      [] p = "Refining" -> 4
      [] p \in Finished -> 5

(* C12: when every call to the service returns or fails in the end, a run *)
(* that has started reaches Done (with the complete record returned) or   *)
(* Failed; every step of a run moves it forward in the order Generating1, *)
(* Reviewing, Refining, finished, so no position is entered twice, a      *)
(* started run is never taken back to Ready or Idle, and a finished run   *)
(* stays finished.                                                         *)
C12_RunTerminates ==
    /\ (pc["r1"] \in InRun) ~> (pc["r1"] \in Finished)
    /\ [](pc["r1"] = "Done" => (HasRecord("r1") /\ returned["r1"].final_output # PyNone))
    /\ [][\A r \in Sessions :
            /\ pc'[r] # pc[r] => Rank(pc'[r]) > Rank(pc[r])
            /\ pc[r] \in Finished => pc'[r] = pc[r]]_vars

\* a run that went through all three calls and returned
C12_Witness ==
    /\ pc["r1"] = "Done"
    /\ llmCalls["r1"] = 3
    /\ returned["r1"].refinement # PyNone

\* calls of r made and not yet returned
InFlight(r) ==
    (Len(genCalls[r]) - Len(genReturns[r])) + (Len(revCalls[r]) - Len(revReturns[r]))

(* C13: the role calls of a run are made one at a time and in order: the  *)
(* first generate call carries no feedback argument; the review call is   *)
(* made only after that call returned, with run's grade and topic and     *)
(* exactly the bundle it returned; the second generate call is made only  *)
(* after the review call returned.                                        *)
C13_SequentialCalls ==
    \A r \in Sessions :
        /\ InFlight(r) \in {0, 1}
        /\ Len(genCalls[r]) >= 1 =>
               genCalls[r][1].kwargs = [grade |-> results[r].input.grade,
                                        topic |-> results[r].input.topic]
        /\ Len(revCalls[r]) >= 1 =>
               /\ Len(genReturns[r]) >= 1
               /\ genReturns[r][1].ok
               /\ revCalls[r][1].kwargs = [grade |-> results[r].input.grade,
                                           topic |-> results[r].input.topic,
                                           content |-> genReturns[r][1].value]
        /\ Len(genCalls[r]) >= 2 =>
               /\ Len(genReturns[r]) >= 1
               /\ Len(revReturns[r]) = Len(revCalls[r])
               /\ Len(revReturns[r]) = 1

\* the second generate call is in progress, after a review of a bundle that
\* misses the counts
C13_Witness ==
    \E r \in Sessions :
        /\ pc[r] = "Refining"
        /\ InFlight(r) = 1
        /\ Len(genCalls[r]) = 2
        /\ revCalls[r][1].kwargs.content \in MisshapedBundles

\* r's run call has made its results dict
HasResults(r) == pc[r] \in InRun \cup Finished

(* C14: once initial_generation and initial_review are recorded in the    *)
(* results of a run, no later step of it changes them (nor input); the    *)
(* step that records the refinement changes refinement and final_output   *)
(* only, so a record returned from the fail branch still holds the first  *)
(* bundle and the reviewer's verdict.                                     *)
C14_RecordedFieldsKept ==
    /\ [][\A r \in Sessions :
            HasResults(r) =>
                /\ results'[r].input = results[r].input
                /\ results[r].initial_generation # PyNone =>
                       results'[r].initial_generation = results[r].initial_generation
                /\ results[r].initial_review # PyNone =>
                       results'[r].initial_review = results[r].initial_review
                /\ (pc[r] = "Refining" /\ pc'[r] = "Done") =>
                       /\ results'[r] =
                              [results[r] EXCEPT !.refinement = results'[r].refinement,
                                                 !.final_output = results'[r].final_output]
                       /\ results'[r].refinement # PyNone
                       /\ results'[r].final_output # PyNone]_vars
    /\ [](\A r \in Sessions :
            (HasRecord(r) /\ returned[r].refinement # PyNone) =>
                /\ returned[r].initial_generation = genReturns[r][1].value
                /\ returned[r].initial_review = revReturns[r][1].value)

\* the fail branch returned a record whose first bundle misses the counts
\* and whose final bundle meets them
C14_Witness ==
    \E r \in Sessions :
        /\ HasRecord(r)
        /\ returned[r].refinement # PyNone
        /\ returned[r].initial_generation \in MisshapedBundles
        /\ returned[r].final_output \in ShapedBundles

\* the review call of r returned a dict that has a status
ReviewedWithStatus(r) ==
    /\ Len(revReturns[r]) = 1
    /\ revReturns[r][1].ok
    /\ "status" \in DOMAIN revReturns[r][1].value

FailedWith(r, f) ==
    /\ ReviewedWithStatus(r)
    /\ revReturns[r][1].value.status = "fail"
    /\ "feedback" \in DOMAIN revReturns[r][1].value
    /\ revReturns[r][1].value.feedback = f

(* C16: after a review with status "fail" and an empty feedback list the  *)
(* second generate call is still made, with feedback [], and its value    *)
(* becomes final_output; the request of that call has an empty            *)
(* feedback_section and equals the request of the first call.             *)
C16_EmptyFeedbackRefinement ==
    \A r \in Sessions :
        FailedWith(r, <<>>) =>
            /\ Len(genCalls[r]) = 2
            /\ genCalls[r][2].kwargs.feedback = <<>>
            /\ genCalls[r][2].request.feedback_section = <<>>
            /\ genCalls[r][2].request = genCalls[r][1].request
            /\ genCalls[r][2].request.grade = results[r].input.grade
            /\ genCalls[r][2].request.topic = results[r].input.topic
            /\ HasRecord(r) =>
                   /\ returned[r].final_output = genReturns[r][2].value
                   /\ returned[r].refinement =
                          [content |-> genReturns[r][2].value, feedback_addressed |-> <<>>]

\* the refinement without feedback produced another bundle, now final
C16_Witness ==
    \E r \in Sessions :
        /\ FailedWith(r, <<>>)
        /\ HasRecord(r)
        /\ returned[r].final_output # returned[r].initial_generation

(* C17: every generate call and every review call invokes its chain       *)
(* exactly once, also when the invocation raises or the text is not       *)
(* JSON: the failure ends the call and the run with no further            *)
(* invocation, so a run makes at most three invocations.                  *)
C17_OneInvocationPerCall ==
    \A r \in Sessions :
        /\ llmCalls[r] = Len(genCalls[r]) + Len(revCalls[r])
        /\ llmCalls[r] <= 3
        /\ RoleFailed(r) =>
               /\ llmCalls[r] = Len(RoleReturns(r))
               /\ InFlight(r) = 0
               /\ pc[r] = "Failed"

\* the third invocation returned text that is not JSON
C17_Witness ==
    \E r \in Sessions :
        /\ llmCalls[r] = 3
        /\ pc[r] = "Failed"
        /\ raised[r] = [type |-> "OutputParserException", raisedBy |-> "GeneratorAgent.generate"]

DirectiveLine == Line("FEEDBACK FROM REVIEWER (Address these issues):", "")

IsBullet(line) == line[1] = "- "

\* the lines of a request's feedback_section between the directive and the
\* closing blank line
SectionBody(section) == SubSeq(section, 3, Len(section) - 1)

RECURSIVE AllTextLines(_)
AllTextLines(feedback) ==
    IF feedback = <<>> THEN <<>>
    ELSE TextLines(Head(feedback)) \o AllTextLines(Tail(feedback))

\* the generate calls of r that were passed a non-empty feedback list
CallsWithFeedback(r) ==
    {i \in DOMAIN genCalls[r] :
        "feedback" \in DOMAIN genCalls[r][i].kwargs /\ genCalls[r][i].kwargs.feedback # <<>>}

(* C18 as stated: for a non-empty feedback list the request holds the     *)
(* "address these issues" directive followed by the items in their order, *)
(* exactly one line "- item" per item; with no feedback passed it holds   *)
(* no directive.                                                           *)
C18_OneLinePerItem ==
    \A r \in Sessions :
        \A i \in DOMAIN genCalls[r] :
            LET section  == genCalls[r][i].request.feedback_section
                feedback == genCalls[r][i].kwargs.feedback
            IN  IF i \in CallsWithFeedback(r)
                THEN /\ Len(section) = Len(feedback) + 3
                     /\ section[2] = DirectiveLine
                     /\ Len(SectionBody(section)) = Len(feedback)
                     /\ \A k \in DOMAIN feedback :
                            SectionBody(section)[k] = Line("- ", feedback[k])
                ELSE section = <<>>

(* C18 as amended: for a non-empty feedback list the request holds the    *)
(* directive followed by one entry "- item" per item, in the items'       *)
(* order and with their text unchanged; an entry is one line when the     *)
(* item's text has no newline and as many lines as that text otherwise;   *)
(* with no feedback passed it holds no directive.                         *)
C18_OneEntryPerItem ==
    \A r \in Sessions :
        \A i \in DOMAIN genCalls[r] :
            LET section  == genCalls[r][i].request.feedback_section
                feedback == genCalls[r][i].kwargs.feedback
            IN  IF i \in CallsWithFeedback(r)
                THEN LET body    == SectionBody(section)
                         bullets == SelectSeq(body, IsBullet)
                     IN  /\ section[1] = Line("", "")
                         /\ section[2] = DirectiveLine
                         /\ section[Len(section)] = Line("", "")
                         /\ Len(bullets) = Len(feedback)
                         /\ \A k \in DOMAIN feedback :
                                bullets[k] = Line("- ", TextLines(feedback[k])[1])
                         /\ [k \in DOMAIN body |-> body[k][2]] = AllTextLines(feedback)
                         /\ (\A k \in DOMAIN feedback : Len(TextLines(feedback[k])) = 1) =>
                                /\ Len(body) = Len(feedback)
                                /\ \A k \in DOMAIN feedback : body[k] = Line("- ", feedback[k])
                ELSE section = <<>>

\* two different one-line items went into the request, in their order
C18_Witness ==
    \E r \in Sessions :
        /\ Len(genCalls[r]) = 2
        /\ genCalls[r][2].kwargs.feedback = <<"q2 untaught", "too advanced">>
        /\ Len(genCalls[r][2].request.feedback_section) = 5

====
